---- MODULE Spec2Model ----
(***************************************************************************)
(* State-machine model of tinc's src/net_socket.c: the outgoing connector  *)
(* (try_outgoing_connections, setup_outgoing_connection,                    *)
(* do_outgoing_connection, retry_outgoing, finish_connecting,               *)
(* free_outgoing) and the accept loop (handle_new_meta_connection).         *)
(*                                                                         *)
(* Strings that the code parses are sequences of one-character strings.    *)
(* Pointers are indices: 0 is NULL.                                        *)
(***************************************************************************)
EXTENDS Integers, Sequences, FiniteSets, TLC

\* ------------------------------------------------------------------ bounds

\* most addresses the resolver returns for one Address entry
MaxAddrs == 2
\* the event loop stops running handlers after this many calls of
\* retry_outgoing: in a run with one outgoing_t, and in a run with two
MaxRounds == 5
MinRounds == 2
\* most inbound connections the accept loop takes
MaxAccepts == 1
\* most established outgoing connections that are lost and reconnected
MaxReconnects == 1

\* --------------------------------------------------------- configuration

NULL == 0

\* the Address entries and the Port of the host files read by
\* read_connection_config(): "a" is the example of the specification
Addr_10_0_0_1_1000 == <<"1","0",".","0",".","0",".","1"," ","1","0","0","0">>
Addr_10_0_0_2 == <<"1","0",".","0",".","0",".","2">>
Addr_h == <<"h">>
NoString == << >>

HostAddress(name) ==
    CASE name = "a" -> <<Addr_10_0_0_1_1000, Addr_10_0_0_2>>
      [] name = "b" -> <<Addr_h>>
      [] OTHER -> << >>

HostPort(name) ==
    CASE name = "b" -> <<"6","5","6">>
      [] OTHER -> NoString

\* the configurations the model starts from: the ConnectTo list and
\* MaxTimeout of tinc.conf, how many calls of retry_outgoing the run is
\* followed for, how many inbound connections arrive and how many
\* established outgoing connections are lost
Configurations ==
    { [connectto |-> <<"a">>,       maxtimeout |-> 20,  rounds |-> MinRounds,
       accepts |-> MaxAccepts, reconnects |-> 0],
      [connectto |-> <<"b!", "b">>, maxtimeout |-> 20,  rounds |-> MaxRounds,
       accepts |-> 0, reconnects |-> MaxReconnects],
      [connectto |-> <<"b", "c">>,  maxtimeout |-> 12,  rounds |-> MaxRounds,
       accepts |-> 0, reconnects |-> 0],
      [connectto |-> <<"b", "b">>,  maxtimeout |-> 900, rounds |-> MinRounds,
       accepts |-> 0, reconnects |-> 0] }

\* names that name a peer (check_id accepts them)
PeerNames == {"a", "b", "c"}

\* ---------------------------------------------------------------- state

VARIABLES
    maxtimeout,       \* int maxtimeout
    connectto,        \* the ConnectTo entries of config_tree
    cfgpos,           \* try_outgoing_connections: static cfg, as an index
    outgoing_list,    \* list_t *outgoing_list: sequence of outgoing_t ids
    og,               \* the outgoing_t objects, by id (a sequence)
    event_tree,       \* per outgoing_t: how often its ev is in the event tree
    conn,             \* the connection_t objects that are allocated, by id
    connection_tree,  \* the ids connection_add() registered
    node_connection,  \* lookup_node(name)->connection
    mutex,            \* holder of the global mutex: "free", "main", "accept"
    l_pc,             \* where handle_new_meta_connection stands
    l_c,              \* its local connection_t *c
    accepts,          \* how many more sockets accept() will return
    now,              \* time(NULL)
    halted,           \* abort() was called, or the process crashed
    ub,               \* undefined behaviour the run went through
    raced,            \* registry operations made without holding the mutex
    rounds,           \* how many calls of retry_outgoing the run is followed for
    last,             \* the operation the last step ran
    reconnects,       \* how many more connections will be lost, and the
                      \* outgoing_t a reconnect has been requested for
    sk                \* the last call of a socket function: its inputs, the
                      \* socket as the kernel has it, and what it returned

vars == << maxtimeout, connectto, cfgpos, outgoing_list, og, event_tree, conn,
           connection_tree, node_connection, mutex, l_pc, l_c, accepts, now,
           halted, ub, raced, rounds, last, reconnects, sk >>

\* the part of the state the functions of net_socket.c read and write
State ==
    [ og |-> og, outgoing_list |-> outgoing_list, event_tree |-> event_tree,
      conn |-> conn, connection_tree |-> connection_tree,
      halted |-> halted, ub |-> ub ]

Min(a, b) == IF a < b THEN a ELSE b

\* a function without one element of its domain
Without(f, x) == [y \in DOMAIN f \ {x} |-> f[y]]

\* ------------------------------------------------------------- C helpers

\* strchr(s, ch): index of the first ch in s, 0 when there is none
strchr(s, ch) ==
    IF \E i \in 1..Len(s) : s[i] = ch
    THEN CHOOSE i \in 1..Len(s) : s[i] = ch /\ \A j \in 1..(i - 1) : s[j] # ch
    ELSE 0

\* the address token do_outgoing_connection passes to str2addrinfo
EntryAddress(entry) ==
    LET space == strchr(entry, " ")
    IN  IF space # 0 THEN SubSeq(entry, 1, space - 1) ELSE entry

\* the port token do_outgoing_connection passes to str2addrinfo
EntryPort(name, entry) ==
    LET space == strchr(entry, " ")
    IN  IF space # 0 THEN SubSeq(entry, space + 1, Len(entry))
        ELSE IF HostPort(name) # NoString THEN HostPort(name)
        ELSE <<"6","5","5">>

\* str2addrinfo(address, port, SOCK_STREAM) when the resolver returns n
\* addresses (none: NULL), in the resolver's order
str2addrinfo(address, port, n) ==
    [i \in 1..n |-> [host |-> address, port |-> port, ord |-> i]]

\* lookup_config(c->config_tree, "Address") / lookup_config_next
lookup_config_Address(name) == IF Len(HostAddress(name)) > 0 THEN 1 ELSE NULL
lookup_config_next_Address(name, cfg) ==
    IF cfg < Len(HostAddress(name)) THEN cfg + 1 ELSE NULL

\* lookup_node_connection that never finds a connection
lookup_node_connection_none(name) == NULL

\* lookup_node(name) and its connection, NULL when there is none
lookup_node_connection(name) ==
    IF name \in DOMAIN node_connection THEN node_connection[name] ELSE NULL

\* check_id that accepts every name
check_id_all(name) == TRUE

\* check_id(name)
check_id(name) == name \in PeerNames

\* xmalloc_and_zero(sizeof *outgoing) with the name set
new_outgoing(name) ==
    [ name |-> name, timeout |-> 0, cfg |-> NULL, ai |-> << >>, aip |-> NULL,
      ev_time |-> 0, freed |-> FALSE,
      retries |-> 0, tried |-> << >>, resolved |-> << >> ]

NoAddress == [host |-> NoString, port |-> NoString, ord |-> 0]

\* new_connection() with the name set; connect says that connect() has been
\* called on the record's socket
new_connection(name) ==
    [ name |-> name, outgoing |-> NULL, socket |-> FALSE, connecting |-> FALSE,
      address |-> NoAddress, thread |-> FALSE, allow_request |-> "none",
      connect |-> FALSE ]

\* the id of the next connection_t allocated
NewConn(s) == CHOOSE c \in 1..(Cardinality(DOMAIN s.conn) + 1) : c \notin DOMAIN s.conn

\* event_add(&outgoing->ev) / event_del(&outgoing->ev)
event_add(s, o) == [s EXCEPT !.event_tree[o] = @ + 1]
event_del(s, o) == [s EXCEPT !.event_tree[o] = 0]

\* connection_add(c) / connection_del(c): connection_del frees the record
connection_add(s, c) == [s EXCEPT !.connection_tree = @ \cup {c}]
connection_del(s, c) ==
    [s EXCEPT !.connection_tree = @ \ {c}, !.conn = Without(@, c)]

\* free_connection(c)
free_connection(s, c) == [s EXCEPT !.conn = Without(@, c)]

\* abort()
abort(s) == [s EXCEPT !.halted = TRUE]

\* ------------------------------------------------- the outgoing connector

\* retry_outgoing with the comparison against maxtimeout left out
retry_outgoing_uncapped(s, o) ==
    LET t  == s.og[o].timeout + 5
        s1 == [s EXCEPT !.og[o].timeout = t,
                        !.og[o].ev_time = now + t,
                        !.og[o].retries = @ + 1]
    IN  event_add(s1, o)

\* retry_outgoing with event_add left out
retry_outgoing_unarmed(s, o) ==
    LET t  == s.og[o].timeout + 5
        t2 == IF t > maxtimeout THEN maxtimeout ELSE t
    IN  [s EXCEPT !.og[o].timeout = t2,
                  !.og[o].ev_time = now + t2,
                  !.og[o].retries = @ + 1]

\* retry_outgoing(outgoing)
retry_outgoing(s, o) ==
    LET t  == s.og[o].timeout + 5
        t2 == IF t > maxtimeout THEN maxtimeout ELSE t
        s1 == [s EXCEPT !.og[o].timeout = t2,
                        !.og[o].ev_time = now + t2,
                        !.og[o].retries = @ + 1]
    IN  event_add(s1, o)

\* finish_connecting(c)
finish_connecting(s, c) == [s EXCEPT !.conn[c].connecting = FALSE]

\* next_address that goes back to the head of a used-up address list instead
\* of releasing it
RECURSIVE next_address_rewind(_, _, _)
next_address_rewind(g, name, res) ==
    IF g.ai = << >> /\ g.cfg = NULL
    THEN [g |-> g, address |-> NoAddress]
    ELSE
    LET entry == HostAddress(name)[g.cfg]
        ai    == str2addrinfo(EntryAddress(entry), EntryPort(name, entry),
                              res[g.cfg])
        g1    == IF g.ai = << >>
                 THEN [g EXCEPT !.ai = ai,
                                !.aip = IF ai # << >> THEN 1 ELSE NULL,
                                !.cfg = lookup_config_next_Address(name, g.cfg),
                                !.resolved = Append(@, Len(ai))]
                 ELSE [g EXCEPT !.aip = IF @ = NULL THEN 1 ELSE @]
    IN  IF g1.aip = NULL
        THEN next_address_rewind([g1 EXCEPT !.ai = << >>], name, res)
        ELSE [g |-> [g1 EXCEPT !.aip = IF g1.aip < Len(g1.ai)
                                       THEN g1.aip + 1 ELSE NULL,
                               !.tried = Append(@, g1.ai[g1.aip])],
              address |-> g1.ai[g1.aip]]

\* do_outgoing_connection, from the label begin to the copy of the next
\* address into c->address: g is *c->outgoing, res[i] is how many addresses
\* the resolver returns for Address entry i. The result is the outgoing_t as
\* it is left and the address taken, NoAddress when no entry is left.
RECURSIVE next_address(_, _, _)
next_address(g, name, res) ==
    IF g.ai = << >> /\ g.cfg = NULL
    THEN [g |-> g, address |-> NoAddress]
    ELSE
    LET entry == HostAddress(name)[g.cfg]
        ai    == str2addrinfo(EntryAddress(entry), EntryPort(name, entry),
                              res[g.cfg])
        g1    == IF g.ai = << >>
                 THEN [g EXCEPT !.ai = ai,
                                !.aip = IF ai # << >> THEN 1 ELSE NULL,
                                !.cfg = lookup_config_next_Address(name, g.cfg),
                                !.resolved = Append(@, Len(ai))]
                 ELSE g
    IN  IF g1.aip = NULL
        THEN next_address([g1 EXCEPT !.ai = << >>], name, res)
        ELSE [g |-> [g1 EXCEPT !.aip = IF g1.aip < Len(g1.ai)
                                       THEN g1.aip + 1 ELSE NULL,
                               !.tried = Append(@, g1.ai[g1.aip])],
              address |-> g1.ai[g1.aip]]

\* do_outgoing_connection that leaves the record registered on exhaustion
RECURSIVE do_outgoing_connection_nodel(_, _, _)
do_outgoing_connection_nodel(s, c, env) ==
    IF s.conn[c].outgoing = NULL THEN abort(s)
    ELSE
    LET o == s.conn[c].outgoing
        r == next_address(s.og[o], s.conn[c].name, env.res)
        s1 == [s EXCEPT !.og[o] = r.g]
    IN  IF r.address = NoAddress
        THEN [retry_outgoing(s1, o) EXCEPT !.conn[c].outgoing = NULL]
        ELSE IF env.nfail > 0
        THEN do_outgoing_connection_nodel(
                 [s1 EXCEPT !.conn[c].address = r.address,
                            !.conn[c].socket = FALSE], c,
                 [env EXCEPT !.nfail = @ - 1])
        ELSE [s1 EXCEPT !.conn[c].address = r.address,
                        !.conn[c].socket = TRUE,
                        !.conn[c].connecting = TRUE]

\* do_outgoing_connection that schedules the retry as soon as socket() fails
do_outgoing_connection_retry_on_socket(s, c, env) ==
    IF s.conn[c].outgoing = NULL THEN abort(s)
    ELSE
    LET o == s.conn[c].outgoing
        r == next_address(s.og[o], s.conn[c].name, env.res)
        s1 == [s EXCEPT !.og[o] = r.g]
    IN  IF r.address = NoAddress \/ env.nfail > 0
        THEN connection_del(
                 [retry_outgoing(s1, o) EXCEPT !.conn[c].outgoing = NULL], c)
        ELSE [s1 EXCEPT !.conn[c].address = r.address,
                        !.conn[c].socket = TRUE,
                        !.conn[c].connecting = TRUE]

\* do_outgoing_connection(c). env.res is the resolver's answer (see
\* next_address), env.nfail how many calls of socket() fail before one
\* succeeds.
RECURSIVE do_outgoing_connection(_, _, _)
do_outgoing_connection(s, c, env) ==
    IF s.conn[c].outgoing = NULL THEN abort(s)
    ELSE
    LET o == s.conn[c].outgoing
        r == next_address(s.og[o], s.conn[c].name, env.res)
        s1 == [s EXCEPT !.og[o] = r.g]
    IN  IF r.address = NoAddress
        THEN connection_del(
                 [retry_outgoing(s1, o) EXCEPT !.conn[c].outgoing = NULL], c)
        ELSE IF env.nfail > 0
        THEN \* socket() returned -1
             do_outgoing_connection(
                 [s1 EXCEPT !.conn[c].address = r.address,
                            !.conn[c].socket = FALSE], c,
                 [env EXCEPT !.nfail = @ - 1])
        ELSE [s1 EXCEPT !.conn[c].address = r.address,
                        !.conn[c].socket = TRUE,
                        !.conn[c].connecting = TRUE]

\* setup_outgoing_connection without the test for a missing Address
setup_outgoing_connection_nocheck(s, o, env) ==
    LET s0   == event_del(s, o)
        name == s0.og[o].name
        n    == lookup_node_connection(name)
    IN  IF n # NULL
        THEN [s0 EXCEPT !.conn[n].outgoing = o]
        ELSE
        LET c  == NewConn(s0)
            s1 == [s0 EXCEPT !.conn = @ @@ (c :> new_connection(name)),
                             !.og[o].cfg = lookup_config_Address(name),
                             !.og[o].tried = << >>,
                             !.og[o].resolved = << >>]
            s2 == connection_add([s1 EXCEPT !.conn[c].outgoing = o], c)
            s3 == do_outgoing_connection(s2, c, env)
        IN  IF ~env.thread_ok THEN abort(s3)
            ELSE IF c \in DOMAIN s3.conn
            THEN [s3 EXCEPT !.conn[c].thread = TRUE]
            ELSE [s3 EXCEPT !.ub = @ \cup {"thread_create on a freed connection_t"}]

\* setup_outgoing_connection(outgoing). env.thread_ok: thread_create() works.
setup_outgoing_connection(s, o, env) ==
    LET s0   == event_del(s, o)
        name == s0.og[o].name
        n    == lookup_node_connection(name)
    IN  IF n # NULL
        THEN \* already connected
             [s0 EXCEPT !.conn[n].outgoing = o]
        ELSE
        LET c  == NewConn(s0)
            s1 == [s0 EXCEPT !.conn = @ @@ (c :> new_connection(name)),
                             !.og[o].cfg = lookup_config_Address(name),
                             !.og[o].tried = << >>,
                             !.og[o].resolved = << >>]
        IN  IF s1.og[o].cfg = NULL
            THEN free_connection(s1, c)
            ELSE
            LET s2 == connection_add([s1 EXCEPT !.conn[c].outgoing = o], c)
                s3 == do_outgoing_connection(s2, c, env)
            IN  IF ~env.thread_ok THEN abort(s3)
                ELSE IF c \in DOMAIN s3.conn
                THEN [s3 EXCEPT !.conn[c].thread = TRUE]
                ELSE \* the record was freed by connection_del
                     [s3 EXCEPT !.ub = @ \cup {"thread_create on a freed connection_t"}]

\* retry_outgoing_handler(data)
retry_outgoing_handler(s, o, env) ==
    IF s.og[o].freed
    THEN [s EXCEPT !.ub = @ \cup {"retry_outgoing_handler on a freed outgoing_t"}]
    ELSE setup_outgoing_connection(s, o, env)

\* free_outgoing(outgoing)
free_outgoing(s, o) ==
    [s EXCEPT !.og[o].ai = << >>, !.og[o].freed = TRUE]

\* ------------------------------------------------- the socket functions

\* a descriptor as the kernel has it: never opened, open or closed, the
\* address-reuse option, the device and the address it is bound to (0: none)
\* and the backlog it listens with (0: not listening)
NoSocket ==
    [ state |-> "none", reuse |-> FALSE, dev |-> FALSE, bound |-> 0,
      backlog |-> 0 ]
OpenSocket == [NoSocket EXCEPT !.state = "open"]
closesocket(sock) == [sock EXCEPT !.state = "closed"]

\* no socket function has been called
NoSocketCall == [op |-> "none"]

\* the for loop of bind_to_address: ai_ptr walks the n resolved addresses,
\* every pass calls bind() with ai_list, the head of the list; ok holds the
\* addresses the kernel lets the socket be bound to
RECURSIVE bind_loop(_, _, _, _)
bind_loop(sock, ai_ptr, n, ok) ==
    IF ai_ptr > n THEN [sock |-> sock, status |-> -1]
    ELSE LET ai_list == 1
         IN  IF ai_list \in ok
             THEN [sock |-> [sock EXCEPT !.bound = ai_list], status |-> 0]
             ELSE bind_loop(sock, ai_ptr + 1, n, ok)

\* bind_to_address(c): in.configured says BindToAddress is set, in.n is the
\* number of addresses getaddrinfo returns (0: it fails)
bind_to_address(sock, in) ==
    IF ~in.configured THEN [sock |-> sock, ret |-> TRUE]
    ELSE IF in.n = 0 THEN [sock |-> sock, ret |-> FALSE]
    ELSE LET r == bind_loop(sock, 1, in.n, in.ok)
         IN  [sock |-> r.sock, ret |-> (r.status = 0)]

\* bind_to_interface(sd): in.iface says BindToInterface is set, in.platform
\* that the build has SO_BINDTODEVICE, in.dev_ok that the setsockopt works
bind_to_interface(sock, in) ==
    IF ~in.iface THEN [sock |-> sock, ret |-> TRUE]
    ELSE IF in.platform
    THEN IF in.dev_ok THEN [sock |-> [sock EXCEPT !.dev = TRUE], ret |-> TRUE]
         ELSE [sock |-> sock, ret |-> FALSE]
    ELSE [sock |-> sock, ret |-> TRUE]

\* setup_listen_socket that keeps the socket open when bind() fails
setup_listen_socket_leak(in) ==
    IF ~in.socket_ok THEN [sock |-> NoSocket, ret |-> -1]
    ELSE
    LET s1 == [OpenSocket EXCEPT !.reuse = in.opt_ok]
    IN  IF in.iface /\ in.platform /\ ~in.dev_ok
        THEN [sock |-> closesocket(s1), ret |-> -1]
        ELSE
        LET s2 == [s1 EXCEPT !.dev = in.iface /\ in.platform]
        IN  IF ~in.bind_ok THEN [sock |-> s2, ret |-> -1]
            ELSE IF ~in.listen_ok
            THEN [sock |-> closesocket([s2 EXCEPT !.bound = 1]), ret |-> -1]
            ELSE [sock |-> [s2 EXCEPT !.bound = 1, !.backlog = 3], ret |-> 1]

\* setup_listen_socket(sa): in.socket_ok, in.opt_ok, in.dev_ok, in.bind_ok
\* and in.listen_ok say whether socket(), the setsockopt calls for
\* SO_REUSEADDR and IPV6_V6ONLY, the one for SO_BINDTODEVICE, bind() and
\* listen() work. The result is the socket and the value returned: -1, or the
\* descriptor, 1.
setup_listen_socket(in) ==
    IF ~in.socket_ok THEN [sock |-> NoSocket, ret |-> -1]
    ELSE
    LET s1 == [OpenSocket EXCEPT !.reuse = in.opt_ok]
    IN  IF in.iface /\ in.platform /\ ~in.dev_ok
        THEN [sock |-> closesocket(s1), ret |-> -1]
        ELSE
        LET s2 == [s1 EXCEPT !.dev = in.iface /\ in.platform]
        IN  IF ~in.bind_ok THEN [sock |-> closesocket(s2), ret |-> -1]
            ELSE IF ~in.listen_ok
            THEN [sock |-> closesocket([s2 EXCEPT !.bound = 1]), ret |-> -1]
            ELSE [sock |-> [s2 EXCEPT !.bound = 1, !.backlog = 3], ret |-> 1]

\* setup_vpn_in_socket(sa): in.opt_ok covers every setsockopt whose result
\* the function ignores or only logs (SO_REUSEADDR, SO_RCVBUF, SO_SNDBUF,
\* IPV6_V6ONLY, the path-MTU options)
setup_vpn_in_socket(in) ==
    IF ~in.socket_ok THEN [sock |-> NoSocket, ret |-> -1]
    ELSE
    LET s1 == [OpenSocket EXCEPT !.reuse = in.opt_ok]
        r  == bind_to_interface(s1, in)
    IN  IF ~r.ret THEN [sock |-> closesocket(r.sock), ret |-> -1]
        ELSE IF ~in.bind_ok THEN [sock |-> closesocket(r.sock), ret |-> -1]
        ELSE [sock |-> [r.sock EXCEPT !.bound = 1], ret |-> 1]

\* ------------------------------------------------------------ the actions

\* how often retry_outgoing has run
RECURSIVE Retries(_)
Retries(g) == IF g = << >> THEN 0 ELSE Head(g).retries + Retries(Tail(g))

Assign(s) ==
    /\ og' = s.og
    /\ outgoing_list' = s.outgoing_list
    /\ event_tree' = s.event_tree
    /\ conn' = s.conn
    /\ connection_tree' = s.connection_tree
    /\ halted' = s.halted
    /\ ub' = s.ub

\* what the resolver, socket() and thread_create() may answer during one call
RECURSIVE SumSeq(_)
SumSeq(q) == IF q = << >> THEN 0 ELSE Head(q) + SumSeq(Tail(q))

Envs(name) ==
    { e \in [ res : [1..Len(HostAddress(name)) -> 0..MaxAddrs],
              nfail : 0..(Len(HostAddress(name)) * MaxAddrs),
              thread_ok : BOOLEAN ] : e.nfail <= SumSeq(e.res) }

Op(op, o) == [op |-> op, o |-> o]

Init ==
    /\ \E cf \in Configurations :
           /\ maxtimeout = cf.maxtimeout
           /\ connectto = cf.connectto
           /\ rounds = cf.rounds
           /\ accepts = cf.accepts
           /\ reconnects = [left |-> cf.reconnects, o |-> NULL]
    /\ cfgpos = 1
    /\ outgoing_list = << >>
    /\ og = << >>
    /\ event_tree = << >>
    /\ conn = << >>
    /\ connection_tree = {}
    /\ node_connection = [n \in PeerNames |-> NULL]
    /\ mutex = "main"
    /\ l_pc = "accept"
    /\ l_c = NULL
    /\ now = 0
    /\ halted = FALSE
    /\ ub = {}
    /\ raced = FALSE
    /\ last = Op("other", NULL)
    /\ sk = NoSocketCall

\* try_outgoing_connections(): one pass of its for loop
try_outgoing_connections ==
    /\ ~halted
    /\ cfgpos \in 1..Len(connectto)
    /\ LET name == connectto[cfgpos]
       IN  IF ~check_id(name)
           THEN /\ last' = Op("other", NULL)
                /\ UNCHANGED << og, outgoing_list, event_tree, conn,
                                connection_tree, halted, ub, raced >>
           ELSE LET o  == Len(og) + 1
                    s1 == [State EXCEPT !.og = Append(@, new_outgoing(name)),
                                        !.event_tree = Append(@, 0),
                                        !.outgoing_list = Append(@, o)]
                IN  \E env \in Envs(name) :
                        /\ Assign(setup_outgoing_connection(s1, o, env))
                        /\ raced' = (raced \/ mutex # "main")
                        /\ last' = Op("setup_outgoing_connection", o)
    /\ cfgpos' = cfgpos + 1
    /\ UNCHANGED << sk, reconnects, maxtimeout, rounds, connectto, node_connection, mutex, l_pc, l_c,
                    accepts, now >>

\* the main thread leaves the start-up code for its loop and gives up the mutex
main_loop ==
    /\ ~halted
    /\ cfgpos > Len(connectto)
    /\ mutex = "main"
    /\ mutex' = "free"
    /\ last' = Op("other", NULL)
    /\ UNCHANGED << sk, reconnects, maxtimeout, rounds, connectto, cfgpos, outgoing_list, og,
                    event_tree, conn, connection_tree, node_connection, l_pc,
                    l_c, accepts, now, halted, ub, raced >>

\* the event loop, holding the mutex, runs the handler of an expired event
event_loop(o) ==
    /\ ~halted
    /\ cfgpos > Len(connectto)
    /\ mutex = "free"
    /\ event_tree[o] > 0
    /\ og[o].ev_time <= now
    /\ Retries(og) < rounds
    /\ \E env \in Envs(og[o].name) :
           Assign(retry_outgoing_handler(State, o, env))
    /\ last' = Op("retry_outgoing_handler", o)
    /\ UNCHANGED << sk, reconnects, maxtimeout, rounds, connectto, cfgpos, node_connection, mutex,
                    l_pc, l_c, accepts, now, raced >>

\* time passes until the next armed event is due
PassTime ==
    /\ ~halted
    /\ LET due == { og[o].ev_time : o \in { x \in 1..Len(og) :
                        event_tree[x] > 0 /\ og[x].ev_time > now } }
       IN  /\ due # {}
           /\ now' = CHOOSE t \in due : \A u \in due : t <= u
    /\ last' = Op("other", NULL)
    /\ UNCHANGED << sk, reconnects, maxtimeout, rounds, connectto, cfgpos, outgoing_list, og,
                    event_tree, conn, connection_tree, node_connection, mutex,
                    l_pc, l_c, accepts, halted, ub, raced >>

\* the worker thread of a connecting record sees connect() succeed
connect_ok(c) ==
    /\ ~halted
    /\ mutex = "free"
    /\ c \in connection_tree
    /\ conn[c].thread /\ conn[c].connecting
    /\ Assign(finish_connecting(State, c))
    /\ last' = Op("finish_connecting", conn[c].outgoing)
    /\ UNCHANGED << sk, reconnects, maxtimeout, rounds, connectto, cfgpos, node_connection, mutex,
                    l_pc, l_c, accepts, now, raced >>

\* the worker thread of a connecting record sees connect() fail: it closes the
\* socket and, holding the mutex, tries the next address
connect_failed(c) ==
    /\ ~halted
    /\ mutex = "free"
    /\ c \in connection_tree
    /\ conn[c].thread /\ conn[c].connecting
    /\ \E env \in { e \in Envs(conn[c].name) : e.thread_ok } :
           Assign(do_outgoing_connection(
                      [State EXCEPT !.conn[c].socket = FALSE], c, env))
    /\ last' = Op("do_outgoing_connection", conn[c].outgoing)
    /\ UNCHANGED << sk, reconnects, maxtimeout, rounds, connectto, cfgpos, node_connection, mutex,
                    l_pc, l_c, accepts, now, raced >>

\* the address accept() reports for an inbound socket
InboundAddress == [host |-> <<"p">>, port |-> <<"9">>, ord |-> 0]

\* handle_new_meta_connection with mutex_lock and mutex_unlock left out
handle_new_meta_connection_nolock ==
    /\ ~halted
    /\ \/ /\ l_pc = "accept"
          /\ l_pc' = "done"
          /\ last' = Op("other", NULL)
          /\ UNCHANGED << conn, connection_tree, mutex, l_c, accepts, halted,
                          raced >>
       \/ /\ l_pc = "accept"
          /\ accepts > 0
          /\ LET c == NewConn(State)
             IN  /\ conn' = conn @@ (c :> [new_connection("<unknown>") EXCEPT
                                              !.address = InboundAddress,
                                              !.socket = TRUE])
                 /\ l_c' = c
                 /\ last' = Op("other", NULL)
          /\ accepts' = accepts - 1
          /\ l_pc' = "lock"
          /\ UNCHANGED << connection_tree, mutex, halted, raced >>
       \/ /\ l_pc = "lock"
          /\ UNCHANGED mutex
          /\ l_pc' = "locked"
          /\ last' = Op("other", NULL)
          /\ UNCHANGED << conn, connection_tree, l_c, accepts, halted, raced >>
       \/ /\ l_pc = "locked"
          /\ \E thread_ok \in BOOLEAN :
                 LET s1 == connection_add(State, l_c)
                     s2 == [s1 EXCEPT !.conn[l_c].allow_request = "ID"]
                     s3 == IF thread_ok
                           THEN [s2 EXCEPT !.conn[l_c].thread = TRUE]
                           ELSE abort(s2)
                 IN  /\ conn' = s3.conn
                     /\ connection_tree' = s3.connection_tree
                     /\ halted' = s3.halted
          /\ raced' = (raced \/ mutex # "accept")
          /\ l_pc' = "unlock"
          /\ last' = Op("other", NULL)
          /\ UNCHANGED << mutex, l_c, accepts >>
       \/ /\ l_pc = "unlock"
          /\ UNCHANGED mutex
          /\ l_pc' = "accept"
          /\ l_c' = NULL
          /\ last' = Op("other", NULL)
          /\ UNCHANGED << conn, connection_tree, accepts, halted, raced >>
    /\ UNCHANGED << sk, reconnects, maxtimeout, rounds, connectto, cfgpos, outgoing_list, og,
                    event_tree, node_connection, now, ub >>

\* handle_new_meta_connection(l): accept() (failing or not), mutex_lock,
\* the registration under the mutex, mutex_unlock
handle_new_meta_connection ==
    /\ ~halted
    /\ \/ /\ l_pc = "accept"
          /\ l_pc' = "done"
          /\ last' = Op("other", NULL)
          /\ UNCHANGED << conn, connection_tree, mutex, l_c, accepts, halted,
                          raced >>
       \/ /\ l_pc = "accept"
          /\ accepts > 0
          /\ LET c == NewConn(State)
             IN  /\ conn' = conn @@ (c :> [new_connection("<unknown>") EXCEPT
                                              !.address = InboundAddress,
                                              !.socket = TRUE])
                 /\ l_c' = c
                 /\ last' = Op("other", NULL)
          /\ accepts' = accepts - 1
          /\ l_pc' = "lock"
          /\ UNCHANGED << connection_tree, mutex, halted, raced >>
       \/ /\ l_pc = "lock"
          /\ mutex = "free"
          /\ mutex' = "accept"
          /\ l_pc' = "locked"
          /\ last' = Op("other", NULL)
          /\ UNCHANGED << conn, connection_tree, l_c, accepts, halted, raced >>
       \/ /\ l_pc = "locked"
          /\ \E thread_ok \in BOOLEAN :
                 LET s1 == connection_add(State, l_c)
                     s2 == [s1 EXCEPT !.conn[l_c].allow_request = "ID"]
                     s3 == IF thread_ok
                           THEN [s2 EXCEPT !.conn[l_c].thread = TRUE]
                           ELSE abort(s2)
                 IN  /\ conn' = s3.conn
                     /\ connection_tree' = s3.connection_tree
                     /\ halted' = s3.halted
          /\ raced' = (raced \/ mutex # "accept")
          /\ l_pc' = "unlock"
          /\ last' = Op("other", NULL)
          /\ UNCHANGED << mutex, l_c, accepts >>
       \/ /\ l_pc = "unlock"
          /\ mutex' = "free"
          /\ l_pc' = "accept"
          /\ l_c' = NULL
          /\ last' = Op("other", NULL)
          /\ UNCHANGED << conn, connection_tree, accepts, halted, raced >>
    /\ UNCHANGED << sk, reconnects, maxtimeout, rounds, connectto, cfgpos, outgoing_list, og,
                    event_tree, node_connection, now, ub >>

\* the peers that connect to this node: the valid names of ConnectTo
InboundNames == { n \in PeerNames : \E i \in 1..Len(connectto) : connectto[i] = n }

\* a record finishes identification as peer `name`, under the mutex: the first
\* record of a peer becomes its node's connection, a later one is discarded
ack_h(c, name) ==
    /\ ~halted
    /\ mutex = "free"
    /\ c \in connection_tree
    /\ conn[c].thread /\ ~conn[c].connecting
    /\ \A n \in PeerNames : node_connection[n] # c
    /\ conn[c].name \in {name, "<unknown>"}
    /\ IF node_connection[name] = NULL
       THEN /\ node_connection' = [node_connection EXCEPT ![name] = c]
            /\ conn' = [conn EXCEPT ![c].name = name,
                                    ![c].allow_request = "ALL"]
            /\ UNCHANGED connection_tree
       ELSE /\ conn' = Without(conn, c)
            /\ connection_tree' = connection_tree \ {c}
            /\ UNCHANGED node_connection
    /\ last' = Op("other", NULL)
    /\ UNCHANGED << sk, reconnects, maxtimeout, rounds, connectto, cfgpos, outgoing_list, og,
                    event_tree, mutex, l_pc, l_c, accepts, now, halted, ub,
                    raced >>

\* a peer is abandoned: its outgoing_t, which no record refers to, is taken
\* off outgoing_list and given to free_outgoing
list_delete(o) ==
    /\ ~halted
    /\ cfgpos > Len(connectto)
    /\ mutex = "free"
    /\ \E i \in 1..Len(outgoing_list) : outgoing_list[i] = o
    /\ \A c \in DOMAIN conn : conn[c].outgoing # o
    /\ Assign(free_outgoing(
           [State EXCEPT !.outgoing_list =
                SelectSeq(@, LAMBDA x : x # o)], o))
    /\ last' = Op("free_outgoing", o)
    /\ UNCHANGED << sk, reconnects, maxtimeout, rounds, connectto, cfgpos, node_connection, mutex,
                    l_pc, l_c, accepts, now, raced >>

\* the established connection of a record with an outgoing_t is lost: the
\* worker thread, taking the mutex, deregisters the record and asks for a
\* reconnect of its outgoing_t
terminate_connection(c) ==
    /\ ~halted
    /\ cfgpos > Len(connectto)
    /\ mutex = "free"
    /\ reconnects.left > 0
    /\ c \in connection_tree
    /\ conn[c].thread /\ ~conn[c].connecting
    /\ conn[c].outgoing # NULL
    /\ Assign(connection_del(State, c))
    /\ node_connection' =
           [n \in PeerNames |->
               IF node_connection[n] = c THEN NULL ELSE node_connection[n]]
    /\ reconnects' = [left |-> reconnects.left - 1, o |-> conn[c].outgoing]
    /\ mutex' = "worker"
    /\ last' = Op("other", NULL)
    /\ UNCHANGED << sk, maxtimeout, rounds, connectto, cfgpos, l_pc, l_c,
                    accepts, now, raced >>

\* the reconnect request: setup_outgoing_connection for the outgoing_t of
\* the lost connection
reconnect ==
    /\ ~halted
    /\ mutex = "worker"
    /\ reconnects.o # NULL
    /\ \E env \in Envs(og[reconnects.o].name) :
           Assign(setup_outgoing_connection(State, reconnects.o, env))
    /\ reconnects' = [reconnects EXCEPT !.o = NULL]
    /\ mutex' = "free"
    /\ last' = Op("setup_outgoing_connection", reconnects.o)
    /\ UNCHANGED << sk, maxtimeout, rounds, connectto, cfgpos, node_connection,
                    l_pc, l_c, accepts, now, raced >>

\* after undefined behaviour the process may crash at any time
Crash ==
    /\ ~halted
    /\ ub # {}
    /\ halted' = TRUE
    /\ last' = Op("other", NULL)
    /\ UNCHANGED << sk, reconnects, maxtimeout, rounds, connectto, cfgpos, outgoing_list, og,
                    event_tree, conn, connection_tree, node_connection, mutex,
                    l_pc, l_c, accepts, now, ub, raced >>

Next ==
    \/ try_outgoing_connections
    \/ main_loop
    \/ \E o \in 1..Len(og) : event_loop(o)
    \/ PassTime
    \/ \E c \in DOMAIN conn : connect_ok(c)
    \/ \E c \in DOMAIN conn : connect_failed(c)
    \/ handle_new_meta_connection
    \/ \E c \in DOMAIN conn, name \in InboundNames : ack_h(c, name)
    \/ \E o \in 1..Len(og) : list_delete(o)
    \/ \E c \in DOMAIN conn : terminate_connection(c)
    \/ reconnect
    \/ Crash

Spec == Init /\ [][Next]_vars


\* ------------------------------------------- calls of the socket functions

\* most addresses getaddrinfo returns for BindToAddress
MaxBindAddrs == 2

\* what the configuration and the kernel may answer during a call of
\* setup_listen_socket or setup_vpn_in_socket
SocketInputs ==
    [ socket_ok : BOOLEAN, opt_ok : BOOLEAN, iface : BOOLEAN,
      platform : BOOLEAN, dev_ok : BOOLEAN, bind_ok : BOOLEAN,
      listen_ok : BOOLEAN ]

\* do_outgoing_connection calls bind_to_address(c) on the socket it opened
call_bind_to_address ==
    /\ sk.op = "none"
    /\ \E configured \in BOOLEAN, n \in 0..MaxBindAddrs :
       \E ok \in SUBSET (1..n) :
           LET in == [configured |-> configured, n |-> n, ok |-> ok]
               r  == bind_to_address(OpenSocket, in)
           IN  sk' = [op |-> "bind_to_address", in |-> in, sock |-> r.sock,
                      ret |-> r.ret]
    /\ UNCHANGED << reconnects, maxtimeout, connectto, cfgpos, outgoing_list, og,
                    event_tree, conn, connection_tree, node_connection, mutex,
                    l_pc, l_c, accepts, now, halted, ub, raced, rounds, last >>

\* the start-up code calls setup_listen_socket(sa)
call_setup_listen_socket ==
    /\ sk.op = "none"
    /\ \E in \in SocketInputs :
           LET r == setup_listen_socket(in)
           IN  sk' = [op |-> "setup_listen_socket", in |-> in,
                      sock |-> r.sock, ret |-> r.ret]
    /\ UNCHANGED << reconnects, maxtimeout, connectto, cfgpos, outgoing_list, og,
                    event_tree, conn, connection_tree, node_connection, mutex,
                    l_pc, l_c, accepts, now, halted, ub, raced, rounds, last >>

\* the start-up code calls setup_vpn_in_socket(sa)
call_setup_vpn_in_socket ==
    /\ sk.op = "none"
    /\ \E in \in { i \in SocketInputs : i.listen_ok } :
           LET r == setup_vpn_in_socket(in)
           IN  sk' = [op |-> "setup_vpn_in_socket", in |-> in,
                      sock |-> r.sock, ret |-> r.ret]
    /\ UNCHANGED << reconnects, maxtimeout, connectto, cfgpos, outgoing_list, og,
                    event_tree, conn, connection_tree, node_connection, mutex,
                    l_pc, l_c, accepts, now, halted, ub, raced, rounds, last >>

SocketInit == Init /\ connectto = <<"a">>

SocketNext ==
    \/ call_bind_to_address
    \/ call_setup_listen_socket
    \/ call_setup_vpn_in_socket

\* the socket functions, each called once with every input
SocketSpec == SocketInit /\ [][SocketNext]_vars

\* --------------------------------------------------------------- claims

\* the ids on outgoing_list
Listed == { outgoing_list[i] : i \in 1..Len(outgoing_list) }

\* C1: at every instant the registry holds at most one ConnectionRecord with
\* a given peer name (the placeholder "<unknown>" is no peer name).
C1_OneRecordPerPeerName ==
    (~halted /\ ub = {}) =>
        \A c1, c2 \in connection_tree :
            (conn[c1].name \in PeerNames /\ conn[c1].name = conn[c2].name)
                => c1 = c2

\* C2: for every peer name at most one PendingOutgoing is on outgoing_list:
\* a ConnectTo name that already has one does not get a second.
C2_OnePendingPerName ==
    (~halted /\ ub = {}) =>
        \A i, j \in 1..Len(outgoing_list) :
            og[outgoing_list[i]].name = og[outgoing_list[j]].name => i = j

\* the fields of outgoing_t o before a step, zeroed when the step allocates it
Before(o) == IF o <= Len(og) THEN og[o] ELSE new_outgoing(og'[o].name)

\* C3: the k-th consecutive call of retry_outgoing for an outgoing_t that
\* started with timeout 0 leaves timeout = min(5*k, maxtimeout), which is not
\* below the timeout before the call and not above maxtimeout, and arms the
\* event for now + timeout.
C3_RetryTimeout ==
    [][ \A o \in 1..Len(og') :
            og'[o].retries # Before(o).retries =>
                /\ og'[o].retries = Before(o).retries + 1
                /\ og'[o].timeout = Min(5 * og'[o].retries, maxtimeout)
                /\ og'[o].timeout >= Before(o).timeout
                /\ og'[o].timeout <= maxtimeout
                /\ og'[o].ev_time = now + og'[o].timeout
                /\ event_tree'[o] > 0 ]_vars

\* C3 witness: with maxtimeout 20 the fifth round has armed 20 again
C3_Witness ==
    \E o \in 1..Len(og) :
        /\ maxtimeout = 20
        /\ og[o].retries = 5
        /\ og[o].timeout = 20
        /\ event_tree[o] = 1
        /\ ~halted

\* the step ran setup_outgoing_connection for outgoing_t o
SetupRan(o) ==
    last' \in { Op("setup_outgoing_connection", o),
                Op("retry_outgoing_handler", o) }

\* C4: for a peer with an Address entry, a round that exhausts all candidates
\* leaves exactly one armed retry timer for its PendingOutgoing, which stays
\* armed until its handler runs; no PendingOutgoing ever has two, and none is
\* armed while an attempt of that PendingOutgoing is under way.
C4_ExactlyOneTimer ==
    [][ \A o \in 1..Len(og') :
            /\ event_tree'[o] <= 1
            /\ \A c \in DOMAIN conn' :
                   conn'[c].outgoing = o => event_tree'[o] = 0
            /\ og'[o].retries # Before(o).retries => event_tree'[o] = 1
            /\ (o <= Len(og) /\ event_tree[o] = 1 /\ event_tree'[o] # 1)
                   => SetupRan(o) ]_vars

\* C4 witness: a second exhausted round has armed the timer of a peer that
\* has an Address entry
C4_Witness ==
    \E o \in 1..Len(og) :
        /\ Len(HostAddress(og[o].name)) >= 1
        /\ og[o].retries >= 2
        /\ event_tree[o] = 1
        /\ last = Op("do_outgoing_connection", o)
        /\ ub = {}

\* C5: right after finish_connecting has run for a record with a
\* PendingOutgoing, the retry timeout is back at the start, so that the next
\* call of retry_outgoing arms 5 seconds.
C5_TimeoutResetOnSuccess ==
    (~halted /\ ub = {} /\ last.op = "finish_connecting" /\ last.o # NULL) =>
        retry_outgoing(State, last.o).og[last.o].timeout = 5

\* C10: after free_outgoing has released a PendingOutgoing, no armed timer
\* that refers to it is left in the event tree.
C10_NoTimerAfterFree ==
    (~halted /\ ub = {}) =>
        \A o \in 1..Len(og) : og[o].freed => event_tree[o] = 0

FirstSpace(entry) ==
    CHOOSE i \in 1..Len(entry) :
        entry[i] = " " /\ \A j \in 1..Len(entry) : entry[j] = " " => i <= j
ExpectedHost(entry) ==
    IF \E i \in 1..Len(entry) : entry[i] = " "
    THEN [i \in 1..(FirstSpace(entry) - 1) |-> entry[i]]
    ELSE entry
ExpectedPort(name, entry) ==
    IF \E i \in 1..Len(entry) : entry[i] = " "
    THEN [i \in 1..(Len(entry) - FirstSpace(entry)) |->
              entry[FirstSpace(entry) + i]]
    ELSE IF HostPort(name) = NoString THEN <<"6","5","5">>
    ELSE HostPort(name)

\* the candidates of entries i.. in configuration order, each entry's in the
\* resolver's order, when the resolver returned resolved[i] addresses
RECURSIVE ExpectedCandidates(_, _, _)
ExpectedCandidates(name, resolved, i) ==
    IF i > Len(resolved) THEN << >>
    ELSE [k \in 1..resolved[i] |->
              [host |-> ExpectedHost(HostAddress(name)[i]),
               port |-> ExpectedPort(name, HostAddress(name)[i]),
               ord |-> k]]
         \o ExpectedCandidates(name, resolved, i + 1)

\* how many of the resolved candidates the cursor aip has passed
Consumed(g) ==
    SumSeq(g.resolved)
        - (IF g.ai # << >> /\ g.aip # NULL THEN Len(g.ai) - g.aip + 1 ELSE 0)

\* C7: within a round the candidates taken are those of the Address entries
\* in configuration order, each entry's in resolver order, none skipped or
\* repeated, with the entry's port token, else the peer's Port, else 655; for
\* ["10.0.0.1 1000", "10.0.0.2"] without Port: 10.0.0.1 port 1000, then
\* 10.0.0.2 port 655.
C7_CandidateOrder ==
    (~halted /\ ub = {}) =>
    \A o \in 1..Len(og) :
        LET g == og[o]
            e == ExpectedCandidates(g.name, g.resolved, 1)
        IN  ~g.freed =>
            /\ Len(g.resolved) <= Len(HostAddress(g.name))
            /\ Len(g.tried) <= Len(e)
            /\ g.tried = SubSeq(e, 1, Len(g.tried))
            /\ (g.name = "a" /\ g.resolved = <<1, 1>> /\ Len(g.tried) = 2) =>
                   g.tried =
                       << [host |-> <<"1","0",".","0",".","0",".","1">>,
                           port |-> <<"1","0","0","0">>, ord |-> 1],
                          [host |-> <<"1","0",".","0",".","0",".","2">>,
                           port |-> <<"6","5","5">>, ord |-> 1] >>

\* an address source with no resolved candidate and no Address entry left
Exhausted(g) == g.cfg = NULL /\ (g.ai = << >> \/ g.aip = NULL)

\* C8: once an address source is exhausted, advancing it yields no candidate,
\* whatever the resolver would answer, and leaves it exhausted; a candidate is
\* taken again only after setup_outgoing_connection has reset the cursor.
C8_ExhaustedStaysExhausted ==
    [][ \A o \in 1..Len(og') :
            /\ (~og'[o].freed /\ Exhausted(og'[o])) =>
                   \A res \in [1..Len(HostAddress(og'[o].name)) -> 0..MaxAddrs] :
                       LET r == next_address(og'[o], og'[o].name, res)
                       IN  r.address = NoAddress /\ Exhausted(r.g)
                           /\ r.g.tried = og'[o].tried
            /\ (o <= Len(og) /\ Exhausted(og[o])
                    /\ og'[o].tried # og[o].tried /\ og'[o].tried # << >>)
                   => SetupRan(o) ]_vars

\* C8 witness: the worker advanced a source whose last candidate was in use
\* and got nothing
C8_Witness ==
    \E o \in 1..Len(og) :
        /\ Exhausted(og[o])
        /\ og[o].tried # << >>
        /\ event_tree[o] = 1
        /\ last = Op("do_outgoing_connection", o)
        /\ ub = {} /\ ~halted

\* C9: setup_outgoing_connection for a peer whose node has a connection only
\* points that record's outgoing at the given PendingOutgoing: no record is
\* created or registered, no socket opened, no thread spawned, no timer of the
\* PendingOutgoing left armed.
C9_AlreadyConnectedNoop ==
    [][ \A o \in 1..Len(og') :
            (SetupRan(o) /\ ~Before(o).freed
                /\ node_connection[og'[o].name] # NULL) =>
                /\ conn' = [conn EXCEPT
                               ![node_connection[og'[o].name]].outgoing = o]
                /\ connection_tree' = connection_tree
                /\ event_tree'[o] = 0
                /\ og'[o] = Before(o)
                /\ halted' = halted /\ ub' = ub ]_vars

\* C9 witness: the retry handler found the peer connected and attached to
\* its record
C9_Witness ==
    \E o \in 1..Len(og) :
        /\ last = Op("retry_outgoing_handler", o)
        /\ node_connection[og[o].name] # NULL
        /\ conn[node_connection[og[o].name]].outgoing = o
        /\ og[o].retries >= 1
        /\ ub = {} /\ ~halted

\* the names of ConnectTo entries 1..n that pass identifier validation
ValidNames(n) ==
    { connectto[i] : i \in { j \in 1..n : connectto[j] \in PeerNames } }

\* C11: a pass of try_outgoing_connections over a name that fails identifier
\* validation creates no outgoing_t, no connection_t and no timer and goes on
\* to the next entry; the peers an attempt was started for are exactly the
\* valid names passed so far.
C11_InvalidNameSkipped ==
    [][ cfgpos' = cfgpos + 1 =>
            /\ connectto[cfgpos] \notin PeerNames =>
                   /\ og' = og /\ outgoing_list' = outgoing_list
                   /\ conn' = conn /\ connection_tree' = connection_tree
                   /\ event_tree' = event_tree
                   /\ halted' = halted
            /\ { og'[o].name : o \in 1..Len(og') } = ValidNames(cfgpos)
            /\ { og'[outgoing_list'[i]].name : i \in 1..Len(outgoing_list') }
                   = ValidNames(cfgpos) ]_vars

\* C11 witness: the entry after an invalid name was processed and its
\* attempt started
C11_Witness ==
    /\ cfgpos > Len(connectto)
    /\ connectto[1] \notin PeerNames
    /\ Len(og) = 1 /\ og[1].name = connectto[2]
    /\ \E c \in connection_tree : conn[c].outgoing = 1 /\ conn[c].connecting
    /\ last = Op("setup_outgoing_connection", 1)
    /\ ub = {} /\ ~halted

\* C12: setup_outgoing_connection for a peer without Address entry frees the
\* record it built without registering it, spawns no thread, arms no timer,
\* and leaves the registry, the other records and the other outgoing_t's as
\* they were.
C12_NoAddressAbandonsOnlyThatPeer ==
    [][ \A o \in 1..Len(og') :
            (SetupRan(o) /\ ~Before(o).freed
                /\ HostAddress(og'[o].name) = << >>
                /\ node_connection[og'[o].name] = NULL) =>
                /\ conn' = conn
                /\ connection_tree' = connection_tree
                /\ event_tree'[o] = 0
                /\ \A p \in 1..Len(og) :
                       p # o => og'[p] = og[p] /\ event_tree'[p] = event_tree[p]
                /\ halted' = halted /\ ub' = ub ]_vars

\* C12 witness: the attempt of "c", which has no Address, was abandoned after
\* the attempt of another peer had been started
C12_Witness ==
    \E o \in 1..Len(og) :
        /\ last = Op("setup_outgoing_connection", o)
        /\ HostAddress(og[o].name) = << >>
        /\ event_tree[o] = 0
        /\ \E c \in connection_tree : conn[c].outgoing # o /\ conn[c].thread
        /\ \A c \in DOMAIN conn : conn[c].name # og[o].name
        /\ ub = {} /\ ~halted

\* C13: bind_to_address with BindToAddress set and resolved returns success
\* exactly when the kernel lets the socket be bound to one of the resolved
\* addresses, and the socket is then bound to the first such address.
C13_BindTriesEachAddress ==
    (sk.op = "bind_to_address" /\ sk.in.configured /\ sk.in.n > 0) =>
        /\ sk.ret = (sk.in.ok # {})
        /\ sk.ret =>
               /\ sk.sock.bound \in sk.in.ok
               /\ \A a \in sk.in.ok : sk.sock.bound <= a

\* a step whose result the socket set-up functions test has failed: socket(),
\* the interface binding, bind(), and for the listen socket listen()
CheckedStepFailed ==
    \/ ~sk.in.socket_ok
    \/ sk.in.iface /\ sk.in.platform /\ ~sk.in.dev_ok
    \/ ~sk.in.bind_ok
    \/ sk.op = "setup_listen_socket" /\ ~sk.in.listen_ok

\* what C14 says of a call apart from when it fails: a failed call leaves
\* no open socket, a failed interface binding closes it, and a descriptor is
\* returned only for a bound socket, listening with backlog 3 if it is the
\* listen socket
FailsClosed ==
    /\ sk.ret = -1 => sk.sock.state # "open"
    /\ (sk.in.socket_ok /\ sk.in.iface /\ sk.in.platform /\ ~sk.in.dev_ok)
           => sk.sock.state = "closed"
    /\ sk.ret # -1 =>
           /\ sk.sock.state = "open" /\ sk.sock.bound = 1
           /\ sk.sock.backlog = IF sk.op = "setup_listen_socket" THEN 3 ELSE 0

\* C14 as stated: setup_listen_socket and setup_vpn_in_socket return -1 when
\* any of their steps fails, the setting of an option included, close the
\* socket on every failure and return a descriptor only for a bound (and
\* listening) socket.
C14_AnyStepFails ==
    sk.op \in {"setup_listen_socket", "setup_vpn_in_socket"} =>
        /\ (sk.ret = -1) = (CheckedStepFailed \/ ~sk.in.opt_ok)
        /\ FailsClosed

\* C14, amended: they return -1 exactly when socket(), the interface
\* binding, bind() or listen() fails; a setsockopt for an option (address
\* reuse, IPv6-only, buffer sizes, path MTU) that fails does not fail the
\* call. On every failure the socket is closed, and a descriptor is returned
\* only for a bound (and listening) socket.
C14_CheckedStepFails ==
    sk.op \in {"setup_listen_socket", "setup_vpn_in_socket"} =>
        /\ (sk.ret = -1) = CheckedStepFailed
        /\ FailsClosed

\* C14 witness: the interface binding of a listen socket failed and the
\* socket was closed
C14_Witness ==
    /\ sk.op = "setup_listen_socket"
    /\ sk.in.socket_ok /\ sk.in.iface /\ sk.in.platform /\ ~sk.in.dev_ok
    /\ sk.sock.state = "closed"
    /\ sk.ret = -1

\* the step ran do_outgoing_connection for a record of outgoing_t o: in the
\* worker thread, or inside setup_outgoing_connection for a peer that is not
\* connected and has an Address
DoOutgoingRan(o) ==
    \/ last' = Op("do_outgoing_connection", o)
    \/ /\ SetupRan(o) /\ ~Before(o).freed
       /\ node_connection[og'[o].name] = NULL
       /\ HostAddress(og'[o].name) # << >>

\* the records the call was made for: the connecting record of o before the
\* step, or the record setup_outgoing_connection built in the step
CalledFor(o) ==
    IF last' = Op("do_outgoing_connection", o)
    THEN { c \in DOMAIN conn : conn[c].outgoing = o /\ conn[c].connecting }
    ELSE DOMAIN conn' \ DOMAIN conn

\* the call starts with no resolved candidate at hand
NoCandidateLeft(g) == g.ai = << >> \/ g.aip = NULL

\* how many addresses each entry resolved during the call gave
NewlyResolved(o) ==
    IF last' = Op("do_outgoing_connection", o)
    THEN SubSeq(og'[o].resolved, Len(og[o].resolved) + 1, Len(og'[o].resolved))
    ELSE og'[o].resolved

\* outcome (a): a registered record holds a socket for the candidate taken
\* last and is connecting, no timer armed, retry_outgoing not called
OutcomeConnecting(o) ==
    /\ CalledFor(o) # {}
    /\ \A c \in CalledFor(o) :
           /\ c \in connection_tree' /\ c \in DOMAIN conn'
           /\ conn'[c].socket /\ conn'[c].connecting
           /\ conn'[c].outgoing = o
           /\ og'[o].tried # << >>
           /\ conn'[c].address = og'[o].tried[Len(og'[o].tried)]
    /\ event_tree'[o] = 0
    /\ og'[o].retries = Before(o).retries

\* outcome (b): every entry was resolved and used up, the timer is armed
\* once, the record is out of the registry and no record refers to o
OutcomeExhausted(o) ==
    /\ Exhausted(og'[o])
    /\ Len(og'[o].resolved) = Len(HostAddress(og'[o].name))
    /\ event_tree'[o] = 1
    /\ og'[o].retries = Before(o).retries + 1
    /\ \A c \in CalledFor(o) : c \notin connection_tree' /\ c \notin DOMAIN conn'
    /\ DOMAIN conn' \subseteq DOMAIN conn
    /\ \A c \in DOMAIN conn' : conn'[c].outgoing # o

\* C15: every call of do_outgoing_connection ends in exactly one of two
\* ways: (a) the record holds a socket for one candidate and is connecting,
\* no retry timer armed; (b) all entries are exhausted, the retry timer is
\* armed, the record's outgoing is cleared and the record is out of the
\* registry. An entry that resolves to nothing is passed over, and when every
\* entry resolves to nothing the outcome is (b).
C15_TwoOutcomes ==
    [][ \A o \in 1..Len(og') :
            DoOutgoingRan(o) =>
                /\ OutcomeConnecting(o) \/ OutcomeExhausted(o)
                /\ ~(OutcomeConnecting(o) /\ OutcomeExhausted(o))
                /\ (NoCandidateLeft(Before(o))
                        /\ SumSeq(NewlyResolved(o)) = 0) => OutcomeExhausted(o) ]_vars

\* C15 witness: a call passed over the first entry of "a", which resolved to
\* nothing, and took the candidate of the second
C15_Witness ==
    \E o \in 1..Len(og) :
        /\ og[o].name = "a"
        /\ og[o].resolved = <<0, 1>>
        /\ \E c \in connection_tree :
               conn[c].outgoing = o /\ conn[c].connecting /\ conn[c].socket
        /\ event_tree[o] = 0
        /\ last.o = o
        /\ ub = {} /\ ~halted

\* C16: a call of do_outgoing_connection calls retry_outgoing only when
\* every candidate of every Address entry has been consumed in the round; a
\* candidate whose socket() fails is followed by the next candidate, of the
\* same entry or of the next, without the timer being armed.
C16_RetryOnlyWhenExhausted ==
    [][ \A o \in 1..Len(og') :
            DoOutgoingRan(o) =>
                /\ (og'[o].retries # Before(o).retries
                        \/ event_tree'[o] # 0) =>
                       /\ Len(og'[o].resolved) = Len(HostAddress(og'[o].name))
                       /\ Consumed(og'[o]) = SumSeq(og'[o].resolved)
                       /\ Exhausted(og'[o])
                /\ ~Exhausted(og'[o]) =>
                       \E c \in connection_tree' :
                           /\ conn'[c].outgoing = o /\ conn'[c].socket
                           /\ conn'[c].address = og'[o].tried[Len(og'[o].tried)] ]_vars

\* C16 witness: inside one call socket() failed for the candidate of the
\* first entry of "a" and the candidate of the second entry was taken, no
\* timer armed
C16_Witness ==
    \E o \in 1..Len(og) :
        /\ last = Op("setup_outgoing_connection", o)
        /\ og[o].name = "a"
        /\ og[o].resolved = <<1, 1>>
        /\ Len(og[o].tried) = 2
        /\ og[o].retries = 0 /\ event_tree[o] = 0
        /\ \E c \in connection_tree :
               conn[c].outgoing = o /\ conn[c].socket /\ conn[c].connecting
                   /\ conn[c].address = og[o].tried[2]
        /\ ub = {} /\ ~halted

\* C17: a record that do_outgoing_connection left flagged connecting has a
\* socket on which connect() to the selected candidate has been issued.
C17_ConnectIssued ==
    (~halted /\ ub = {}) =>
        \A c \in connection_tree :
            (conn[c].outgoing # NULL /\ conn[c].connecting) =>
                conn[c].socket /\ conn[c].connect

\* the step ran setup_outgoing_connection(o) and a new attempt was started:
\* the peer is not connected and has an Address
NewAttempt(o) ==
    /\ SetupRan(o) /\ ~Before(o).freed
    /\ node_connection[og'[o].name] = NULL
    /\ HostAddress(og'[o].name) # << >>

\* C18: when setup_outgoing_connection starts a new attempt the address
\* source is reset: the candidates of the attempt come from entries resolved
\* in this attempt, beginning with the first resolved address of the first
\* Address entry that resolves; none is left over from an earlier round.
C18_FreshAddressSource ==
    [][ \A o \in 1..Len(og') :
            (NewAttempt(o) /\ ub' = {} /\ ~halted' /\ og'[o].tried # << >>) =>
                /\ SumSeq(og'[o].resolved) > 0
                /\ og'[o].tried[1] =
                       ExpectedCandidates(og'[o].name, og'[o].resolved, 1)[1]
                /\ og'[o].tried[1].ord = 1 ]_vars

\* C19: the accept loop registers the accepted record, marks it as expecting
\* the ID request and spawns its thread while it holds the mutex, and has
\* released the mutex when it accepts again (only the abort on a failed
\* thread_create leaves it held); a failing accept() ends the loop without
\* the mutex held and without a change to the records or the registry.
C19_AcceptLoopUnderMutex ==
    [][ /\ (mutex' = "accept") = (l_pc' \in {"locked", "unlock"})
        /\ l_pc' \in {"lock", "locked"} =>
               l_c' \in DOMAIN conn' /\ l_c' \notin connection_tree'
        /\ (l_pc = "locked" /\ l_pc' = "unlock") =>
               /\ mutex = "accept" /\ mutex' = "accept"
               /\ connection_tree' = connection_tree \cup {l_c}
               /\ conn'[l_c].allow_request = "ID"
               /\ conn'[l_c].thread \/ halted'
               /\ conn'[l_c].thread => ~halted'
        /\ (l_pc = "unlock" /\ l_pc' = "accept") =>
               mutex' = "free" /\ connection_tree' = connection_tree
        /\ (l_pc = "accept" /\ l_pc' = "done") =>
               /\ mutex' = mutex /\ mutex # "accept"
               /\ conn' = conn /\ connection_tree' = connection_tree
               /\ halted' = halted
        /\ (l_pc = "done") => l_pc' = "done" ]_vars

\* C19 witness: an accepted record is registered, expects the ID request and
\* has its thread, the mutex is free again and the loop has ended on a
\* failing accept()
C19_Witness ==
    /\ \E c \in connection_tree :
           /\ conn[c].name = "<unknown>" /\ conn[c].allow_request = "ID"
           /\ conn[c].thread
    /\ l_pc = "done"
    /\ mutex = "free"
    /\ ub = {} /\ ~halted

\* C20: setup_outgoing_connection never calls thread_create for a record
\* that do_outgoing_connection has deleted: when the candidates are exhausted
\* inside the call no thread is spawned.
C20_ThreadOnlyForRegisteredRecord ==
    "thread_create on a freed connection_t" \notin ub

====
